---- MODULE Spec2Model ----
(***************************************************************************)
(* Model of lib/template_engine.py: the {{name}} placeholder scanner, the  *)
(* variable normalizer, the interpolator and the strict renderer.          *)
(*                                                                         *)
(* Text is a sequence of one-character strings, so that the regular        *)
(* expression and str.join are computed character by character.  A JSON    *)
(* value is a tagged record: str, num, bool, null, list, dict (a dict      *)
(* keeps its keys in insertion order, as Python's does).                   *)
(***************************************************************************)
EXTENDS Integers, Sequences, FiniteSets, TLC

(***************************************************************************)
(* Bounds of the checked input space.                                      *)
(***************************************************************************)
\* longest string leaf of the fragment-built templates, in fragments
MaxFrags == 3
\* longest string leaf of the metadata-rich templates, in fragments
MaxMetaFrags == 1
\* most entries (files and directories) below a template directory
MaxEntries == 3

(***************************************************************************)
(* Characters.                                                             *)
(***************************************************************************)
\* the characters the model's texts use, in code point order
CodeOrder ==
  << " ", ",", "-", "0", "1", "2", "3", "4", "5", "6", "7", "8", "9",
     "A", "F", "T", "_", "a", "b", "c", "d", "e", "f", "g", "i", "l", "m", "n",
     "p", "r", "s", "t", "u", "x", "y", "{", "}" >>

\* ord(c), up to an order-preserving renumbering
CharCode(c) == CHOOSE i \in 1..Len(CodeOrder) : CodeOrder[i] = c

\* \s of the pattern
Whitespace == {" "}

\* [a-zA-Z0-9_] of the pattern
NameChars ==
  { "0", "1", "2", "3", "4", "5", "6", "7", "8", "9",
    "A", "F", "T", "_", "a", "b", "c", "d", "e", "f", "g", "i", "l", "m", "n",
    "p", "r", "s", "t", "u", "x", "y" }

\* str comparison of Python: s < t, lexicographic by code point
RECURSIVE StrLess(_, _)
StrLess(s, t) ==
  IF t = <<>> THEN FALSE
  ELSE IF s = <<>> THEN TRUE
  ELSE IF Head(s) = Head(t) THEN StrLess(Tail(s), Tail(t))
  ELSE CharCode(Head(s)) < CharCode(Head(t))

\* sorted(S) of Python for a set of strings
RECURSIVE Sorted(_)
Sorted(S) ==
  IF S = {} THEN <<>>
  ELSE LET least == CHOOSE s \in S : \A t \in S \ {s} : StrLess(s, t)
       IN  <<least>> \o Sorted(S \ {least})

\* sep.join(list)
RECURSIVE Join(_, _)
Join(list, sep) ==
  IF list = <<>> THEN <<>>
  ELSE IF Len(list) = 1 THEN list[1]
  ELSE list[1] \o sep \o Join(Tail(list), sep)

\* the elements of a list, as a set: set(list)
ToSet(list) == { list[i] : i \in DOMAIN list }

(***************************************************************************)
(* _PLACEHOLDER_RE = {{\s*([a-zA-Z0-9_]+)\s*}}                             *)
(***************************************************************************)
\* the first index >= i of s whose character is outside C (Len(s)+1 if none):
\* where a greedy C* that starts at i stops
RECURSIVE SkipWhile(_, _, _)
SkipWhile(s, i, C) ==
  IF i <= Len(s) /\ s[i] \in C THEN SkipWhile(s, i + 1, C) ELSE i

\* a pattern whose name may be empty: {{\s*([a-zA-Z0-9_]*)\s*}}
_PLACEHOLDER_RE_star(s, i) ==
  LET n == Len(s)
      j == SkipWhile(s, i + 2, Whitespace)
      k == SkipWhile(s, j, NameChars)
      l == SkipWhile(s, k, Whitespace)
  IN  IF /\ i + 1 <= n
         /\ s[i] = "{"
         /\ s[i + 1] = "{"
         /\ l + 1 <= n
         /\ s[l] = "}"
         /\ s[l + 1] = "}"
      THEN [ok |-> TRUE, stop |-> l + 2, name |-> SubSeq(s, j, k - 1)]
      ELSE [ok |-> FALSE, stop |-> i, name |-> <<>>]

\* The match of the pattern that starts exactly at index i, if there is one.
\* The three classes (whitespace, name characters, braces) are disjoint, so
\* the greedy match is the only match and backtracking finds no other.
\* stop is the index after the match.
_PLACEHOLDER_RE(s, i) ==
  LET n == Len(s)
      j == SkipWhile(s, i + 2, Whitespace)
      k == SkipWhile(s, j, NameChars)
      l == SkipWhile(s, k, Whitespace)
  IN  IF /\ i + 1 <= n
         /\ s[i] = "{"
         /\ s[i + 1] = "{"
         /\ k > j
         /\ l + 1 <= n
         /\ s[l] = "}"
         /\ s[l + 1] = "}"
      THEN [ok |-> TRUE, stop |-> l + 2, name |-> SubSeq(s, j, k - 1)]
      ELSE [ok |-> FALSE, stop |-> i, name |-> <<>>]

\* _PLACEHOLDER_RE.finditer(s), group(1) of each match: the leftmost
\* non-overlapping matches, left to right, from index i on
RECURSIVE finditer(_, _)
finditer(s, i) ==
  IF i > Len(s) THEN <<>>
  ELSE LET m == _PLACEHOLDER_RE(s, i)
       IN  IF m.ok THEN <<m.name>> \o finditer(s, m.stop)
           ELSE finditer(s, i + 1)

(***************************************************************************)
(* JSON values.                                                            *)
(***************************************************************************)
Str(s) == [t |-> "str", s |-> s]
Num(n) == [t |-> "num", n |-> n]
Bool(b) == [t |-> "bool", b |-> b]
Null == [t |-> "null"]
List(items) == [t |-> "list", items |-> items]
Dict(keys, vals) == [t |-> "dict", keys |-> keys, vals |-> vals]

\* {}
EmptyDict == Dict(<<>>, <<>>)

\* the reserved metadata key and the keys of the metadata block
K_template == << "_", "t", "e", "m", "p", "l", "a", "t", "e" >>
K_required == << "r", "e", "q", "u", "i", "r", "e", "d" >>
K_defaults == << "d", "e", "f", "a", "u", "l", "t", "s" >>
K_allow_unresolved ==
  << "a", "l", "l", "o", "w", "_", "u", "n", "r", "e", "s", "o", "l", "v", "e", "d" >>

\* key in d
HasKey(d, key) == \E i \in DOMAIN d.keys : d.keys[i] = key

\* d.get(key): the value at key, None if absent
Get(d, key) ==
  IF HasKey(d, key)
  THEN d.vals[CHOOSE i \in DOMAIN d.keys : d.keys[i] = key]
  ELSE Null

\* a sequence without its i-th element
RemoveAt(seq, i) == SubSeq(seq, 1, i - 1) \o SubSeq(seq, i + 1, Len(seq))

\* dict(d) followed by .pop(key, None) on the copy: the copy without the key
Pop(d, key) ==
  IF HasKey(d, key)
  THEN LET i == CHOOSE j \in DOMAIN d.keys : d.keys[j] = key
       IN  Dict(RemoveAt(d.keys, i), RemoveAt(d.vals, i))
  ELSE d

\* bool(v)
Truthy(v) ==
  CASE v.t = "null" -> FALSE
    [] v.t = "bool" -> v.b
    [] v.t = "num"  -> v.n # 0
    [] v.t = "str"  -> Len(v.s) > 0
    [] v.t = "list" -> Len(v.items) > 0
    [] v.t = "dict" -> Len(v.keys) > 0

Digits == << "0", "1", "2", "3", "4", "5", "6", "7", "8", "9" >>

\* str(n) for a non-negative int
RECURSIVE NatToStr(_)
NatToStr(n) ==
  IF n < 10 THEN <<Digits[n + 1]>>
  ELSE NatToStr(n \div 10) \o <<Digits[(n % 10) + 1]>>

\* str(v) for a str, an int or a bool
PyStr(v) ==
  CASE v.t = "str"  -> v.s
    [] v.t = "num"  -> IF v.n < 0 THEN <<"-">> \o NatToStr(0 - v.n) ELSE NatToStr(v.n)
    [] v.t = "bool" -> IF v.b THEN << "T", "r", "u", "e" >>
                              ELSE << "F", "a", "l", "s", "e" >>

\* concatenation of a list of lists
RECURSIVE Flatten(_)
Flatten(lists) ==
  IF lists = <<>> THEN <<>> ELSE Head(lists) \o Flatten(Tail(lists))

(***************************************************************************)
(* The scanner and the interpolator.                                       *)
(***************************************************************************)
\* the list of placeholder names of every string leaf, in document order,
\* repetitions kept; object keys are not scanned
RECURSIVE _find_placeholders(_)
_find_placeholders(value) ==
  CASE value.t = "str"  -> finditer(value.s, 1)
    [] value.t = "dict" ->
         Flatten([i \in DOMAIN value.vals |-> _find_placeholders(value.vals[i])])
    [] value.t = "list" ->
         Flatten([i \in DOMAIN value.items |-> _find_placeholders(value.items[i])])
    [] OTHER -> <<>>

\* a replacement that leaves every placeholder as it stands
_repl_nothing(s, i, m, variables) == SubSeq(s, i, m.stop - 1)

\* a replacement that drops the placeholders it has no value for
_repl_erasing(s, i, m, variables) ==
  IF m.name \in DOMAIN variables THEN variables[m.name] ELSE <<>>

\* _repl: the text that replaces one match (s[i .. stop-1], name as captured)
_repl(s, i, m, variables) ==
  IF m.name \in DOMAIN variables THEN variables[m.name]
  ELSE SubSeq(s, i, m.stop - 1)

\* a substitution that also reads a doubled brace outside a placeholder as
\* an escaped single brace, as str.format does
RECURSIVE sub_unescaping(_, _, _)
sub_unescaping(s, i, variables) ==
  IF i > Len(s) THEN <<>>
  ELSE LET m == _PLACEHOLDER_RE(s, i)
       IN  IF m.ok
           THEN (IF m.name \in DOMAIN variables THEN variables[m.name]
                 ELSE SubSeq(s, i, m.stop - 1))
                  \o sub_unescaping(s, m.stop, variables)
           ELSE IF i + 1 <= Len(s) /\ s[i] = s[i + 1] /\ s[i] \in {"{", "}"}
           THEN <<s[i]>> \o sub_unescaping(s, i + 2, variables)
           ELSE <<s[i]>> \o sub_unescaping(s, i + 1, variables)

\* a substitution that scans the text it has inserted again
RECURSIVE sub_rescanning(_, _, _)
sub_rescanning(s, i, variables) ==
  IF i > Len(s) THEN <<>>
  ELSE LET m == _PLACEHOLDER_RE(s, i)
       IN  IF m.ok /\ m.name \in DOMAIN variables
           THEN sub_rescanning(variables[m.name] \o SubSeq(s, m.stop, Len(s)),
                               1, variables)
           ELSE IF m.ok
           THEN SubSeq(s, i, m.stop - 1) \o sub_rescanning(s, m.stop, variables)
           ELSE <<s[i]>> \o sub_rescanning(s, i + 1, variables)

\* _PLACEHOLDER_RE.sub(_repl, s) from index i on: every match is replaced,
\* the text between the matches is copied, the replacement is not rescanned
RECURSIVE sub(_, _, _)
sub(s, i, variables) ==
  IF i > Len(s) THEN <<>>
  ELSE LET m == _PLACEHOLDER_RE(s, i)
       IN  IF m.ok THEN _repl(s, i, m, variables) \o sub(s, m.stop, variables)
           ELSE <<s[i]>> \o sub(s, i + 1, variables)

RECURSIVE interpolate_value(_, _)

\* an interpolator that substitutes in the keys of an object as well
interpolate_value_keys(value, variables) ==
  CASE value.t = "str"  -> Str(sub(value.s, 1, variables))
    [] value.t = "dict" ->
         Dict([i \in DOMAIN value.keys |-> sub(value.keys[i], 1, variables)],
              [i \in DOMAIN value.vals |-> interpolate_value(value.vals[i], variables)])
    [] value.t = "list" ->
         List([i \in DOMAIN value.items |-> interpolate_value(value.items[i], variables)])
    [] OTHER -> value

\* interpolate_value of interpolate_variables
interpolate_value(value, variables) ==
  CASE value.t = "str"  -> Str(sub(value.s, 1, variables))
    [] value.t = "dict" ->
         Dict(value.keys,
              [i \in DOMAIN value.vals |-> interpolate_value(value.vals[i], variables)])
    [] value.t = "list" ->
         List([i \in DOMAIN value.items |-> interpolate_value(value.items[i], variables)])
    [] OTHER -> value

interpolate_variables(template, variables) == interpolate_value(template, variables)

(***************************************************************************)
(* Outcomes.  Every failure of the engine is a ValueError; kind names the  *)
(* raise statement by the failure it reports.  message is prefix followed  *)
(* by text.  A call that raises returns nothing: returned is FALSE and     *)
(* value is None.                                                          *)
(***************************************************************************)
\* a mapping without keys
EmptyMap == [k \in {} |-> <<>>]

Blank ==
  [ op |-> "none", raised |-> FALSE, returned |-> FALSE,
    exc |-> "", kind |-> "", prefix |-> "", text |-> <<>>, names |-> <<>>,
    value |-> Null, variables |-> EmptyMap, required_set |-> {},
    tolerant |-> FALSE, out |-> EmptyMap, found |-> <<>>, prev |-> Null,
    templates |-> <<>> ]

Raise(exc, kind, prefix, text) ==
  [Blank EXCEPT !.raised = TRUE, !.exc = exc, !.kind = kind,
                !.prefix = prefix, !.text = text]

(***************************************************************************)
(* The normalizer.                                                         *)
(***************************************************************************)
\* isinstance(v, (str, int, float, bool)) or v is None
IsScalar(v) == v.t \in {"str", "num", "bool", "null"}

\* str(v) for None as well: "None"
StringifyNone(v) == IF v.t = "null" THEN << "N", "o", "n", "e" >> ELSE PyStr(v)

\* "" if v is None else str(v)
Stringify(v) == IF v.t = "null" THEN <<>> ELSE PyStr(v)

\* a normalizer that drops the values it cannot stringify
_normalize_vars_dropping(obj) ==
  IF obj.t # "dict" THEN [Blank EXCEPT !.returned = TRUE, !.out = EmptyMap]
  ELSE [Blank EXCEPT
          !.returned = TRUE,
          !.out = [k \in { obj.keys[i] : i \in { j \in DOMAIN obj.vals : IsScalar(obj.vals[j]) } }
                     |-> Stringify(Get(obj, k))]]

\* _normalize_vars(obj): out is the name -> text mapping it returns.  The
\* loop raises at the first key, in insertion order, whose value is neither a
\* scalar nor None.  (Keys are strings: the documents come from JSON.)
_normalize_vars(obj) ==
  IF obj.t = "null" THEN [Blank EXCEPT !.returned = TRUE, !.out = EmptyMap]
  ELSE IF obj.t # "dict"
  THEN Raise("ValueError", "ValidationError",
             "template variables must be a JSON object", <<>>)
  ELSE LET bad == { i \in DOMAIN obj.vals : ~IsScalar(obj.vals[i]) }
       IN  IF bad # {}
           THEN LET i == CHOOSE j \in bad : \A h \in bad : j <= h
                IN  Raise("ValueError", "ValidationError",
                          "template variable '{k}' must be a string/number/bool/null",
                          obj.keys[i])
           ELSE [Blank EXCEPT
                   !.returned = TRUE,
                   !.out = [k \in ToSet(obj.keys) |-> Stringify(Get(obj, k))]]

(***************************************************************************)
(* The strict renderer.                                                    *)
(***************************************************************************)
\* _extract_template_meta(template): the value at "_template" if it is a
\* dict, else {}
_extract_template_meta(template) ==
  LET meta == Get(template, K_template)
  IN  IF meta.t # "dict" THEN EmptyDict ELSE meta

\* a renderer that leaves the metadata in its output
PayloadWithMetadata(template) == template

\* lines 112-114: the value that is rendered, the template without its
\* "_template" key
Payload(template) ==
  IF HasKey(template, K_template) THEN Pop(template, K_template) ELSE template

\* line 116: meta.get("defaults") if it is a dict, else {}
DefaultsOf(meta) ==
  IF Get(meta, K_defaults).t = "dict" THEN Get(meta, K_defaults) ELSE EmptyDict

\* a merge in which the defaults win
MergeDefaultsWin(defaults, input_vars) ==
  [k \in DOMAIN defaults \cup DOMAIN input_vars |->
     IF k \in DOMAIN defaults THEN defaults[k] ELSE input_vars[k]]

\* lines 117-118: variables = dict(defaults); variables.update(input_vars)
Merge(defaults, input_vars) ==
  [k \in DOMAIN defaults \cup DOMAIN input_vars |->
     IF k \in DOMAIN input_vars THEN input_vars[k] ELSE defaults[k]]

\* a required set that adds the payload's placeholder names to the list's
RequiredSetWithPayload(meta, payload) ==
  LET required == Get(meta, K_required)
  IN  (IF required.t = "list"
       THEN { x.s : x \in { y \in ToSet(required.items) : y.t = "str" } }
       ELSE {})
        \cup ToSet(_find_placeholders(payload))

\* lines 120-124: the explicit list's string entries, or every placeholder
\* name of the payload
RequiredSet(meta, payload) ==
  LET required == Get(meta, K_required)
  IN  IF required.t = "list"
      THEN { x.s : x \in { y \in ToSet(required.items) : y.t = "str" } }
      ELSE ToSet(_find_placeholders(payload))

\* a renderer that reports one missing name per failure
MissingOneAtATime(required_set, variables) ==
  LET all == Sorted({ v \in required_set : v \notin DOMAIN variables })
  IN  IF all = <<>> THEN <<>> ELSE << all[1] >>

\* a renderer without the check before interpolation
MissingUnchecked(required_set, variables) == <<>>

\* line 126
Missing(required_set, variables) ==
  Sorted({ v \in required_set : v \notin DOMAIN variables })

\* a renderer that honours the caller's flag alone
TolerantByFlagOnly(meta, allow_unresolved) == allow_unresolved

\* lines 127 and 132: allow_unresolved or bool(meta.get("allow_unresolved", False))
Tolerant(meta, allow_unresolved) ==
  \/ allow_unresolved
  \/ IF HasKey(meta, K_allow_unresolved)
     THEN Truthy(Get(meta, K_allow_unresolved))
     ELSE FALSE

\* a renderer without the check after interpolation
UnresolvedUnchecked(rendered) == <<>>

\* line 131
Unresolved(rendered) == Sorted(ToSet(_find_placeholders(rendered)))

\* ", "
CommaSpace == << ",", " " >>

_render_strict(template, input_vars, allow_unresolved) ==
  IF template.t # "dict"
  THEN \* template.get of a value that is no dict
       Raise("AttributeError", "AttributeError", "object has no attribute 'get'", <<>>)
  ELSE
  LET meta == _extract_template_meta(template)
      payload == Payload(template)
      defaults == _normalize_vars(DefaultsOf(meta))
      inputs == _normalize_vars(input_vars)
  IN  IF defaults.raised THEN defaults
      ELSE IF inputs.raised THEN inputs
      ELSE
      LET variables == Merge(defaults.out, inputs.out)
          required_set == RequiredSet(meta, payload)
          missing == Missing(required_set, variables)
          tolerant == Tolerant(meta, allow_unresolved)
          locals == [Blank EXCEPT !.variables = variables,
                                  !.required_set = required_set,
                                  !.tolerant = tolerant]
      IN  IF missing # <<>> /\ ~tolerant
          THEN [locals EXCEPT
                  !.raised = TRUE, !.exc = "ValueError", !.kind = "MissingVariables",
                  !.prefix = "Missing template variables: ",
                  !.names = missing, !.text = Join(missing, CommaSpace)]
          ELSE
          LET rendered == interpolate_variables(payload, variables)
              unresolved == Unresolved(rendered)
          IN  IF unresolved # <<>> /\ ~tolerant
              THEN [locals EXCEPT
                      !.raised = TRUE, !.exc = "ValueError",
                      !.kind = "UnresolvedPlaceholders",
                      !.prefix = "Unresolved template placeholders remain: ",
                      !.names = unresolved, !.text = Join(unresolved, CommaSpace)]
              ELSE [locals EXCEPT !.returned = TRUE, !.value = rendered]

(***************************************************************************)
(* The checked inputs.                                                     *)
(***************************************************************************)
A == << "a" >>
B == << "b" >>
C == << "c" >>
K_msg == << "m", "s", "g" >>
K_n == << "n" >>
K_items == << "i", "t", "e", "m", "s" >>
K_in == << "i", "n" >>
K_t == << "t" >>

\* "{{a}}", "{{ b }}": a placeholder, and one with interior whitespace
Ph_a == << "{", "{", "a", "}", "}" >>
Ph_b == << "{", "{", " ", "b", " ", "}", "}" >>
Open == << "{", "{" >>
Close == << "}", "}" >>

\* the pieces string leaves are built of
Fragments == { Ph_a, Ph_b, Open, Close, << " " >> }
MetaFragments == { Ph_a, Ph_b, << "-" >> }

\* the concatenations of at most n pieces
RECURSIVE Texts(_, _)
Texts(pieces, n) ==
  IF n = 0 THEN { <<>> }
  ELSE LET shorter == Texts(pieces, n - 1)
       IN  shorter \cup { p \o s : p \in pieces, s \in shorter }

\* {"msg": s}
Flat(s) == Dict(<< K_msg >>, << Str(s) >>)

\* {"n": 42, "items": [s, true, {"in": null, "t": "-"}]}
Nested(s) ==
  Dict(<< K_n, K_items >>,
       << Num(42),
          List(<< Str(s), Bool(TRUE),
                  Dict(<< K_in, K_t >>, << Null, Str(<< "-" >>) >>) >>) >>)

\* template with the metadata block meta under "_template"
WithMeta(template, meta) ==
  Dict(template.keys \o << K_template >>, template.vals \o << meta >>)

\* marks a key that a document leaves out
Absent == [t |-> "absent"]

\* the dict of the given <<key, value>> pairs, without the absent ones
DictFrom(pairs) ==
  LET present == SelectSeq(pairs, LAMBDA f : f[2] # Absent)
  IN  Dict([i \in DOMAIN present |-> present[i][1]],
           [i \in DOMAIN present |-> present[i][2]])

\* the variable documents {"a": .., "b": ..} over the values a and b may take
VarDocs(avals, bvals) ==
  { DictFrom(<< <<A, a>>, <<B, b>> >>) :
      a \in avals \cup {Absent}, b \in bvals \cup {Absent} }

\* metadata blocks of the fragment-built templates
SmallMetas ==
  { Dict(<< K_required >>, << List(<< Str(A) >>) >>),
    Dict(<< K_allow_unresolved >>, << Bool(TRUE) >>) }

\* the fields of the metadata blocks of the metadata-rich templates
RequiredFields ==
  { List(<< Str(C) >>), List(<< Str(B), Num(7), Str(A) >>), Str(A) }
DefaultsFields ==
  { Dict(<< A >>, << Str(<< "d" >>) >>),
    Dict(<< B >>, << Null >>),
    Dict(<< A >>, << List(<< Num(1) >>) >>),
    Str(<< "d" >>) }
AllowFields ==
  { Bool(FALSE), Bool(TRUE), Str(<< "f", "a", "l", "s", "e" >>) }

RichMetas ==
  { DictFrom(<< <<K_required, r>>, <<K_defaults, d>>, <<K_allow_unresolved, a>> >>) :
      r \in RequiredFields \cup {Absent},
      d \in DefaultsFields \cup {Absent},
      a \in AllowFields \cup {Absent} }
  \cup { Str(<< "-" >>) }

\* the values of the variables of the fragment-built templates: a bare name,
\* the empty string, text that is itself a placeholder
TextValues == { Str(B), Str(<<>>), Str(Ph_b) }

\* the values of the variables of the metadata-rich templates
ScalarValues == { Str(<< "x" >>), Num(42), Bool(TRUE), Bool(FALSE), Null }
NonScalarValues == { List(<< Num(1) >>) }

\* templates whose string leaf is built of fragments, with little metadata
FragmentTemplates ==
  LET bare == { Flat(s) : s \in Texts(Fragments, MaxFrags) }
  IN  bare \cup { WithMeta(p, m) : p \in bare, m \in SmallMetas }

\* templates with every combination of metadata fields
MetaTemplates ==
  LET bare == { Flat(s) : s \in Texts(MetaFragments, MaxMetaFrags) }
                 \cup { Nested(s) : s \in Texts(MetaFragments, MaxMetaFrags) }
  IN  bare \cup { WithMeta(p, m) : p \in bare, m \in RichMetas }

\* string leaves with brace sequences that are no placeholder, or not the
\* placeholder they seem: "{{ }}", "{{a}", "{a}}", "{{a-b}}", "{{a b}}",
\* "{ {a}}", "{{A}}", "{{{a}}}", "{{ a}}{{a", "{{a}}{{ b }}"
EdgeLeaves ==
  { Open \o << " " >> \o Close,
    << "{", "{", "a", "}" >>,
    << "{", "a", "}", "}" >>,
    << "{", "{", "a", "-", "b", "}", "}" >>,
    << "{", "{", "a", " ", "b", "}", "}" >>,
    << "{", " ", "{", "a", "}", "}" >>,
    << "{", "{", "A", "}", "}" >>,
    << "{" >> \o Ph_a \o << "}" >>,
    << "{", "{", " ", "a", "}", "}", "{", "{", "a" >>,
    Ph_a \o Ph_b }

\* templates of one such leaf, and templates whose key reads as a
\* placeholder: {"{{a}}": "{{a}}"}, {"{{a}}": 1}
EdgeTemplates ==
  { Flat(s) : s \in EdgeLeaves }
  \cup { Dict(<< Ph_a >>, << Str(Ph_a) >>), Dict(<< Ph_a >>, << Num(1) >>) }

\* values of the variables of these templates
EdgeValues == { Str(<< "x" >>), Str(Ph_b), Null }

\* the calls that are checked: <<template, variable document>>
Calls ==
  (FragmentTemplates \X VarDocs(TextValues, { Str(<< "y" >>) }))
  \cup (MetaTemplates \X
          (VarDocs(ScalarValues \cup NonScalarValues, {}) \cup { Null }))
  \cup (EdgeTemplates \X VarDocs(EdgeValues, { Str(<< "y" >>), Null }))

(***************************************************************************)
(* Objects.  The dicts and lists of the documents are objects with an      *)
(* identity: heap is the sequence of all of them, an object's address its  *)
(* index.  An entry of a dict or list object is the address of another     *)
(* object, or an immutable scalar (str, number, bool, None) held in place. *)
(***************************************************************************)
Ref(a) == [t |-> "ref", a |-> a]

\* a new object
New(h, node) == [h |-> Append(h, node), r |-> Ref(Len(h) + 1)]

\* json.load: the objects of a parsed document, children first
RECURSIVE Store(_, _), StoreAll(_, _)
Store(h, value) ==
  CASE value.t = "dict" ->
         LET kids == StoreAll(h, value.vals)
         IN  New(kids.h, [t |-> "dict", keys |-> value.keys, refs |-> kids.rs])
    [] value.t = "list" ->
         LET kids == StoreAll(h, value.items)
         IN  New(kids.h, [t |-> "list", refs |-> kids.rs])
    [] OTHER -> [h |-> h, r |-> value]

StoreAll(h, values) ==
  IF values = <<>> THEN [h |-> h, rs |-> <<>>]
  ELSE LET first == Store(h, Head(values))
           rest == StoreAll(first.h, Tail(values))
       IN  [h |-> rest.h, rs |-> << first.r >> \o rest.rs]

\* the value an entry stands for
RECURSIVE Deref(_, _)
Deref(h, r) ==
  IF r.t # "ref" THEN r
  ELSE LET node == h[r.a]
           vals == [i \in DOMAIN node.refs |-> Deref(h, node.refs[i])]
       IN  IF node.t = "dict" THEN Dict(node.keys, vals) ELSE List(vals)

\* the addresses of the objects of the tree under an entry
RECURSIVE Reach(_, _)
Reach(h, r) ==
  IF r.t # "ref" THEN {}
  ELSE {r.a} \cup UNION { Reach(h, h[r.a].refs[i]) : i \in DOMAIN h[r.a].refs }

\* template.pop("_template", None) on the dict object at r, in place
PopTemplateKey(h, r) ==
  LET node == h[r.a]
      i == CHOOSE j \in DOMAIN node.keys : node.keys[j] = K_template
  IN  [h EXCEPT ![r.a] = [t |-> "dict", keys |-> RemoveAt(node.keys, i),
                                         refs |-> RemoveAt(node.refs, i)]]

\* a renderer that pops the metadata key from the caller's own dict
StripInPlace(h, r) ==
  IF HasKey(h[r.a], K_template)
  THEN [h |-> PopTemplateKey(h, r), r |-> r]
  ELSE [h |-> h, r |-> r]

\* lines 112-114: template = dict(template) makes a new dict object with the
\* same entries, and the key is popped from that one; r is the object the
\* local name template is bound to afterwards
StripCopy(h, r) ==
  IF HasKey(h[r.a], K_template)
  THEN LET copy == New(h, h[r.a])
       IN  [h |-> PopTemplateKey(copy.h, copy.r), r |-> copy.r]
  ELSE [h |-> h, r |-> r]

\* an interpolator that hands back a list or dict without placeholders as
\* it is, instead of building a new one
RECURSIVE interpolate_objects_sharing(_, _, _), interpolate_all_sharing(_, _, _)
interpolate_objects_sharing(h, r, variables) ==
  CASE r.t = "str" -> [h |-> h, r |-> Str(sub(r.s, 1, variables))]
    [] r.t = "ref" ->
         IF _find_placeholders(Deref(h, r)) = <<>> THEN [h |-> h, r |-> r]
         ELSE LET kids == interpolate_all_sharing(h, h[r.a].refs, variables)
              IN  New(kids.h, [h[r.a] EXCEPT !.refs = kids.rs])
    [] OTHER -> [h |-> h, r |-> r]

interpolate_all_sharing(h, rs, variables) ==
  IF rs = <<>> THEN [h |-> h, rs |-> <<>>]
  ELSE LET first == interpolate_objects_sharing(h, Head(rs), variables)
           rest == interpolate_all_sharing(first.h, Tail(rs), variables)
       IN  [h |-> rest.h, rs |-> << first.r >> \o rest.rs]

\* interpolate_value on objects: the comprehensions build a new dict or list
\* of the interpolated entries; a string gives a string; any other scalar is
\* handed back as it is
RECURSIVE interpolate_objects(_, _, _), interpolate_all(_, _, _)
interpolate_objects(h, r, variables) ==
  CASE r.t = "str" -> [h |-> h, r |-> Str(sub(r.s, 1, variables))]
    [] r.t = "ref" ->
         LET kids == interpolate_all(h, h[r.a].refs, variables)
         IN  New(kids.h, [h[r.a] EXCEPT !.refs = kids.rs])
    [] OTHER -> [h |-> h, r |-> r]

interpolate_all(h, rs, variables) ==
  IF rs = <<>> THEN [h |-> h, rs |-> <<>>]
  ELSE LET first == interpolate_objects(h, Head(rs), variables)
           rest == interpolate_all(first.h, Tail(rs), variables)
       IN  [h |-> rest.h, rs |-> << first.r >> \o rest.rs]

\* _render_strict on objects: what the call whose outcome is given leaves in
\* the heap, and the object it returns (None when it raises); r is the
\* template object the caller passes.  The metadata key is removed before
\* any raise; the payload is interpolated unless ValidationError or
\* MissingVariables is raised before.  (input_vars and the defaults are only
\* read: _normalize_vars builds its own dict out, and update is applied to
\* the new dict variables; those name -> text dicts are local to the call
\* and are no objects of the heap.)
render_objects(h, r, outcome) ==
  IF outcome.kind = "AttributeError" THEN [h |-> h, r |-> Null]
  ELSE IF outcome.kind \in {"ValidationError", "MissingVariables"}
  THEN [h |-> StripCopy(h, r).h, r |-> Null]
  ELSE LET body == StripCopy(h, r)
           rendered == interpolate_objects(body.h, body.r, outcome.variables)
       IN  IF outcome.raised THEN [h |-> rendered.h, r |-> Null] ELSE rendered

(***************************************************************************)
(* The template directory.  A path is the sequence of its parts, a part a  *)
(* text.  A directory tree is the set of the entries below its root, each  *)
(* with its path relative to the root and whether it is a directory.       *)
(***************************************************************************)
DotJson == << ".", "j", "s", "o", "n" >>
Slash == << "/" >>
General == << "g", "e", "n", "e", "r", "a", "l" >>

\* fnmatch of a name against "*.json" (case-sensitive)
MatchesJson(name) ==
  Len(name) >= Len(DotJson)
    /\ SubSeq(name, Len(name) - Len(DotJson) + 1, Len(name)) = DotJson

\* PurePath.suffix of a name: from the last dot on, unless that dot is the
\* first or the last character of the name
Suffix(name) ==
  LET dots == { i \in DOMAIN name : name[i] = "." }
  IN  IF dots = {} THEN <<>>
      ELSE LET i == CHOOSE d \in dots : \A e \in dots : e <= d
           IN  IF 1 < i /\ i < Len(name) THEN SubSeq(name, i, Len(name)) ELSE <<>>

\* rel_path.with_suffix(''): the name loses its suffix
WithoutSuffix(rel) ==
  LET name == rel[Len(rel)]
  IN  [rel EXCEPT ![Len(rel)] = SubSeq(name, 1, Len(name) - Len(Suffix(name)))]

\* str(path)
PathStr(parts) == Join(parts, Slash)

\* the descriptor appended for the entry at rel below the directory root
Descriptor(root, rel) ==
  [ id |-> PathStr(WithoutSuffix(rel)),
    path |-> PathStr(<< root >> \o rel),
    category |-> IF Len(rel) > 1 THEN rel[1] ELSE General ]

\* templates_path.rglob("*.json"): every entry below the root, file or
\* directory, whose name matches; nothing if the root is no directory
rglob(dir) ==
  IF dir.kind # "dir" THEN {}
  ELSE { e \in dir.entries : MatchesJson(e.rel[Len(e.rel)]) }

\* the orders in which a directory scan may yield the entries of S
Orders(S) ==
  { f \in [1..Cardinality(S) -> S] : \A i, j \in DOMAIN f : f[i] = f[j] => i = j }

\* the lists list_templates may return: [] if the root does not exist, else
\* one descriptor per entry rglob yields, in the order it yields them
list_templates(dir) ==
  IF dir.kind = "none" THEN { <<>> }
  ELSE { [i \in DOMAIN order |-> Descriptor(dir.root, order[i].rel)] :
           order \in Orders(rglob(dir)) }

\* a root that does not exist
NoDirectory == [kind |-> "none", root |-> << "t" >>, entries |-> {}]

(***************************************************************************)
(* The state: the caller's template, variable document and flag as they    *)
(* were passed, the outcome of the last call, the heap of objects, and the *)
(* objects the caller holds (its template, its variable document, the      *)
(* value returned last and the value returned before that); and the        *)
(* directory that list_templates is given.                                 *)
(***************************************************************************)
VARIABLES template, input_vars, allow_unresolved, result, heap, refs,
          templates_dir

vars == << template, input_vars, allow_unresolved, result, heap, refs,
           templates_dir >>

\* the heap after both documents are loaded
Loaded(t, v) ==
  LET first == Store(<<>>, t)
      second == Store(first.h, v)
  IN  [h |-> second.h, template |-> first.r, input_vars |-> second.r]

Init ==
  /\ \E c \in Calls : template = c[1] /\ input_vars = c[2]
  /\ allow_unresolved \in BOOLEAN
  /\ result = Blank
  /\ heap = Loaded(template, input_vars).h
  /\ refs = [template |-> Loaded(template, input_vars).template,
             input_vars |-> Loaded(template, input_vars).input_vars,
             rendered |-> Null, prev |-> Null]
  /\ templates_dir = NoDirectory

\* _render_strict(template, input_vars, allow_unresolved)
Render ==
  /\ result.op = "none"
  /\ result' = [_render_strict(template, input_vars, allow_unresolved)
                  EXCEPT !.op = "render"]
  /\ LET after == render_objects(heap, refs.template, result')
     IN  /\ heap' = after.h
         /\ refs' = [refs EXCEPT !.rendered = after.r]
  /\ UNCHANGED << template, input_vars, allow_unresolved, templates_dir >>

\* _normalize_vars(input_vars)
Normalize ==
  /\ result.op = "none"
  /\ result' = [_normalize_vars(input_vars) EXCEPT !.op = "normalize"]
  /\ UNCHANGED << template, input_vars, allow_unresolved, heap, refs,
                  templates_dir >>

\* _find_placeholders(template)
Scan ==
  /\ result.op = "none"
  /\ result' = [Blank EXCEPT !.op = "scan", !.returned = TRUE,
                             !.found = _find_placeholders(template)]
  /\ UNCHANGED << template, input_vars, allow_unresolved, heap, refs,
                  templates_dir >>

\* interpolate_variables(template, variables), variables the normalized
\* variable document
Interpolate ==
  /\ result.op = "none"
  /\ _normalize_vars(input_vars).returned
  /\ LET variables == _normalize_vars(input_vars).out
         after == interpolate_objects(heap, refs.template, variables)
     IN  /\ result' = [Blank EXCEPT
                         !.op = "interpolate", !.returned = TRUE,
                         !.variables = variables,
                         !.value = interpolate_variables(template, variables)]
         /\ heap' = after.h
         /\ refs' = [refs EXCEPT !.rendered = after.r]
  /\ UNCHANGED << template, input_vars, allow_unresolved, templates_dir >>

\* the variable documents that extend doc by at most one more variable
Supersets(doc) ==
  LET base == IF doc.t = "dict" THEN doc ELSE EmptyDict
  IN  {base} \cup
      { Dict(base.keys \o << k >>, base.vals \o << Str(<< "x" >>) >>) :
          k \in { n \in {B, C} : ~HasKey(base, n) } }

\* a second _render_strict, of the value the first one returned, with the
\* same variables or more
ReRender ==
  /\ result.op = "render"
  /\ result.returned
  /\ \E more \in Supersets(input_vars) :
       /\ result' = [_render_strict(result.value, more, allow_unresolved)
                       EXCEPT !.op = "rerender", !.prev = result.value]
       /\ LET after == render_objects(heap, refs.rendered, result')
          IN  /\ heap' = after.h
              /\ refs' = [refs EXCEPT !.rendered = after.r, !.prev = refs.rendered]
  /\ UNCHANGED << template, input_vars, allow_unresolved, templates_dir >>

Next == Render \/ Normalize \/ Scan \/ Interpolate \/ ReRender

Spec == Init /\ [][Next]_vars

(***************************************************************************)
(* Templates of any JSON type.  load_template hands _render_strict whatever *)
(* json.load gives: an object, but also a list, a string, a number, a       *)
(* boolean or null; and the value under "_template" may be of any type.     *)
(***************************************************************************)
\* the values found under "_template"
AnyMetas ==
  { Str(<< "-" >>), Num(7), Bool(TRUE), Null, List(<< Str(A) >>), EmptyDict,
    Dict(<< K_required >>, << List(<< Str(B) >>) >>) }

AnyTemplates ==
  { List(<<>>), List(<< Str(Ph_a), Num(1) >>), Str(Ph_a), Str(<< "-" >>),
    Num(42), Bool(TRUE), Null, Flat(Ph_a), Flat(<< "-" >>), EmptyDict }
  \cup { WithMeta(Flat(Ph_a), m) : m \in AnyMetas }
  \cup { Dict(<< K_template, K_msg >>, << m, Str(Ph_a) >>) : m \in AnyMetas }

InitAny ==
  /\ template \in AnyTemplates
  /\ input_vars \in VarDocs({ Str(<< "x" >>) }, {}) \cup { Null }
  /\ allow_unresolved \in BOOLEAN
  /\ result = Blank
  /\ heap = Loaded(template, input_vars).h
  /\ refs = [template |-> Loaded(template, input_vars).template,
             input_vars |-> Loaded(template, input_vars).input_vars,
             rendered |-> Null, prev |-> Null]
  /\ templates_dir = NoDirectory

SpecAny == InitAny /\ [][Next]_vars

(***************************************************************************)
(* Listing a template directory.                                           *)
(***************************************************************************)
File(rel) == [rel |-> rel, dir |-> FALSE]
Directory(rel) == [rel |-> rel, dir |-> TRUE]

\* "a.json", "a.b.json", "n.txt", "a.JSON", "s", "d.json"
N_a == << "a" >> \o DotJson
N_ab == << "a", ".", "b" >> \o DotJson
N_txt == << "n", ".", "t", "x", "t" >>
N_upper == << "a", ".", "J", "S", "O", "N" >>
N_s == << "s" >>
N_d == << "d" >> \o DotJson

\* the entries the checked trees are made of
Entries ==
  { File(<< N_a >>), File(<< DotJson >>), File(<< N_ab >>), File(<< N_txt >>),
    File(<< N_upper >>),
    Directory(<< N_s >>), File(<< N_s, N_a >>),
    Directory(<< N_s, N_s >>), File(<< N_s, N_s, N_a >>),
    Directory(<< N_d >>), File(<< N_d, N_a >>) }

\* every entry below the first level lies in a directory of the tree
ParentClosed(T) ==
  \A e \in T : Len(e.rel) > 1
     => Directory(SubSeq(e.rel, 1, Len(e.rel) - 1)) \in T

\* the checked roots: one that does not exist, one that is a regular file,
\* and the directories with at most MaxEntries entries
Directories ==
  { NoDirectory, [kind |-> "file", root |-> << "t" >>, entries |-> {}] }
  \cup { [kind |-> "dir", root |-> << "t" >>, entries |-> T] :
           T \in { U \in SUBSET Entries :
                     Cardinality(U) <= MaxEntries /\ ParentClosed(U) } }

InitList ==
  /\ templates_dir \in Directories
  /\ template = EmptyDict
  /\ input_vars = Null
  /\ allow_unresolved = FALSE
  /\ result = Blank
  /\ heap = Loaded(template, input_vars).h
  /\ refs = [template |-> Loaded(template, input_vars).template,
             input_vars |-> Loaded(template, input_vars).input_vars,
             rendered |-> Null, prev |-> Null]

\* list_templates(templates_dir)
ListTemplates ==
  /\ result.op = "none"
  /\ \E listing \in list_templates(templates_dir) :
       result' = [Blank EXCEPT !.op = "list", !.returned = TRUE,
                               !.templates = listing]
  /\ UNCHANGED << template, input_vars, allow_unresolved, heap, refs,
                  templates_dir >>

NextList == ListTemplates

SpecList == InitList /\ [][NextList]_vars

(***************************************************************************)
(* Vocabulary of the properties, stated on the inputs of the call and not  *)
(* through the renderer.                                                   *)
(***************************************************************************)
\* the metadata block of the caller's template
Meta == _extract_template_meta(template)

\* the allow_unresolved field of the metadata block, false if absent
AllowField ==
  IF HasKey(Meta, K_allow_unresolved) THEN Get(Meta, K_allow_unresolved)
  ELSE Bool(FALSE)

\* the names a variable document supplies
KeysOf(doc) == IF doc.t = "dict" THEN ToSet(doc.keys) ELSE {}

\* every value of the document is a string, a number, a boolean or null
AllScalar(doc) ==
  \/ doc.t = "null"
  \/ /\ doc.t = "dict"
     /\ \A i \in DOMAIN doc.vals : doc.vals[i].t \in {"str", "num", "bool", "null"}

\* the caller's variables and the template's defaults are variable sets
ValidVariableSets == AllScalar(input_vars) /\ AllScalar(DefaultsOf(Meta))

\* required set minus the keys of the effective variable set
ExpectedMissing ==
  RequiredSet(Meta, Payload(template))
    \ (KeysOf(input_vars) \cup KeysOf(DefaultsOf(Meta)))

\* a list in strictly increasing lexicographic order (so without repetition)
StrictlySorted(names) ==
  \A i \in 1..(Len(names) - 1) : StrLess(names[i], names[i + 1])

\* the failure carries no rendered value
NothingReturned == result.raised /\ ~result.returned /\ result.value = Null

\* the failure reports exactly the names of S, sorted, joined by ", "
Reports(kind, S) ==
  /\ NothingReturned
  /\ result.kind = kind
  /\ ToSet(result.names) = S
  /\ StrictlySorted(result.names)
  /\ result.text = Join(result.names, CommaSpace)

\* tolerance is off: the flag is false and bool() of the metadata field is False
Strict == ~allow_unresolved /\ ~Truthy(AllowField)

\* the defaults with the caller's variables merged over them, as texts
ExpectedVariables ==
  LET defaults == DefaultsOf(Meta)
  IN  [k \in KeysOf(input_vars) \cup KeysOf(defaults) |->
         IF k \in KeysOf(input_vars) THEN Stringify(Get(input_vars, k))
         ELSE Stringify(Get(defaults, k))]

\* s[i..j] reads {{ whitespace* name-character+ whitespace* }}
IsPlaceholderText(s, i, j) ==
  /\ j - i >= 4
  /\ s[i] = "{" /\ s[i + 1] = "{" /\ s[j - 1] = "}" /\ s[j] = "}"
  /\ \E a \in (i + 2)..(j - 2) : \E b \in a..(j - 2) :
       /\ \A h \in (i + 2)..(a - 1) : s[h] \in Whitespace
       /\ \A h \in a..b : s[h] \in NameChars
       /\ \A h \in (b + 1)..(j - 2) : s[h] \in Whitespace

ContainsPlaceholderText(s) ==
  \E i \in 1..Len(s) : \E j \in i..Len(s) : IsPlaceholderText(s, i, j)

\* the string leaves of a value (object keys are no leaves)
RECURSIVE StringLeaves(_)
StringLeaves(value) ==
  CASE value.t = "str"  -> { value.s }
    [] value.t = "dict" -> UNION { StringLeaves(value.vals[i]) : i \in DOMAIN value.vals }
    [] value.t = "list" -> UNION { StringLeaves(value.items[i]) : i \in DOMAIN value.items }
    [] OTHER -> {}

\* no string leaf holds the literal text of a well-formed placeholder
NoPlaceholderText(value) ==
  \A s \in StringLeaves(value) : ~ContainsPlaceholderText(s)

\* the names of the placeholders of the payload
PayloadNames == ToSet(_find_placeholders(Payload(template)))

\* the names that are still placeholders after the payload is interpolated
Survivors ==
  ToSet(_find_placeholders(interpolate_variables(Payload(template), ExpectedVariables)))

(***************************************************************************)
(* C1                                                                      *)
(***************************************************************************)
\* C1 as stated: when the caller's flag is false and the metadata field
\* allow_unresolved is not true, a non-empty missing set makes _render_strict
\* fail with MissingVariables naming every missing name once, sorted.
C1_AsStated ==
  ( /\ result.op = "render"
    /\ ValidVariableSets
    /\ ~allow_unresolved
    /\ AllowField # Bool(TRUE)
    /\ ExpectedMissing # {} )
  => Reports("MissingVariables", ExpectedMissing)

\* C1, amended: when the caller's flag is false and the metadata field
\* allow_unresolved is not truthy (bool() of it is False), a non-empty
\* missing set makes _render_strict fail with one MissingVariables failure
\* that names every missing name exactly once, in lexicographic order, and
\* returns no rendered value.
C1_MissingVariables ==
  ( /\ result.op = "render"
    /\ ValidVariableSets
    /\ ~allow_unresolved
    /\ ~Truthy(AllowField)
    /\ ExpectedMissing # {} )
  => Reports("MissingVariables", ExpectedMissing)

\* a strict render that failed for two missing names at once
C1_Witness ==
  /\ result.op = "render"
  /\ ValidVariableSets
  /\ ~allow_unresolved
  /\ ~Truthy(AllowField)
  /\ Cardinality(ExpectedMissing) >= 2
  /\ result.kind = "MissingVariables"
  /\ Len(result.names) >= 2

C3_TolerantMode ==
  ( /\ result.op = "render"
    /\ ValidVariableSets
    /\ (allow_unresolved \/ AllowField = Bool(TRUE)) )
  => /\ result.returned
     /\ ~result.raised
     /\ result.value = interpolate_variables(Payload(template), ExpectedVariables)
     /\ \A n \in PayloadNames \ DOMAIN ExpectedVariables :
          n \in ToSet(_find_placeholders(result.value))

\* a render made tolerant by the metadata alone, which substituted one
\* placeholder and left a missing one as literal text
C3_Witness ==
  /\ result.op = "render"
  /\ ValidVariableSets
  /\ ~allow_unresolved
  /\ AllowField = Bool(TRUE)
  /\ ExpectedMissing # {}
  /\ result.returned
  /\ result.value # Payload(template)
  /\ _find_placeholders(result.value) # <<>>

(***************************************************************************)
(* C4                                                                      *)
(***************************************************************************)
\* C4: the effective variable set holds, for every name the caller supplies,
\* the caller's normalized value, also when the defaults name it too; a name
\* only the defaults supply holds the default's value and is never reported
\* missing; and that set is the one the payload is interpolated against.
C4_CallerOverridesDefaults ==
  (result.op = "render" /\ ValidVariableSets)
  => LET defaults == DefaultsOf(Meta)
     IN  /\ DOMAIN result.variables = KeysOf(input_vars) \cup KeysOf(defaults)
         /\ \A k \in KeysOf(input_vars) :
              result.variables[k] = Stringify(Get(input_vars, k))
         /\ \A k \in KeysOf(defaults) \ KeysOf(input_vars) :
              /\ result.variables[k] = Stringify(Get(defaults, k))
              /\ k \notin ToSet(result.names)
         /\ result.returned
              => result.value = interpolate_variables(Payload(template), ExpectedVariables)

\* a render of a payload that uses a, with a default for a and a different
\* value for a from the caller
C4_Witness ==
  /\ result.op = "render"
  /\ ValidVariableSets
  /\ A \in KeysOf(input_vars)
  /\ A \in KeysOf(DefaultsOf(Meta))
  /\ Stringify(Get(input_vars, A)) # Stringify(Get(DefaultsOf(Meta), A))
  /\ A \in PayloadNames
  /\ result.returned
  /\ result.variables[A] = Stringify(Get(input_vars, A))

(***************************************************************************)
(* C5                                                                      *)
(***************************************************************************)
\* the textual form the claim gives a scalar
ClaimedText(v) ==
  CASE v.t = "str"  -> v.s
    [] v.t = "num"  -> IF v.n < 0 THEN <<"-">> \o NatToStr(0 - v.n) ELSE NatToStr(v.n)
    [] v.t = "bool" -> IF v.b THEN << "t", "r", "u", "e" >>
                              ELSE << "f", "a", "l", "s", "e" >>
    [] v.t = "null" -> <<>>

\* C5: _normalize_vars maps a string to itself, a number to its decimal
\* text, true to "true", false to "false" and null to the empty string; an
\* absent (null) document normalizes to the empty mapping.
C5_AsStated ==
  (result.op = "normalize" /\ AllScalar(input_vars))
  => /\ result.returned
     /\ DOMAIN result.out = KeysOf(input_vars)
     /\ \A k \in KeysOf(input_vars) :
          result.out[k] = ClaimedText(Get(input_vars, k))

(***************************************************************************)
(* C6                                                                      *)
(***************************************************************************)
\* the keys of a document whose values are objects or lists
NonScalarKeys(doc) ==
  IF doc.t # "dict" THEN {}
  ELSE { doc.keys[i] : i \in { j \in DOMAIN doc.vals :
                                 doc.vals[j].t \in {"list", "dict"} } }

\* C6: a non-scalar value among the caller's variables or the metadata
\* defaults makes the render fail with a ValidationError that names an
\* offending key, with no value returned and before anything is computed from
\* the variables (no missing name is reported); also when the caller
\* overrides the offending default, and also in tolerant mode.
C6_NonScalarRejected ==
  ( /\ result.op = "render"
    /\ NonScalarKeys(input_vars) \cup NonScalarKeys(DefaultsOf(Meta)) # {} )
  => /\ NothingReturned
     /\ result.kind = "ValidationError"
     /\ result.text \in NonScalarKeys(input_vars) \cup NonScalarKeys(DefaultsOf(Meta))
     /\ result.names = <<>>

\* a tolerant render whose default for a is a list and whose caller supplies
\* a scalar a: it fails all the same, naming a
C6_Witness ==
  /\ result.op = "render"
  /\ allow_unresolved
  /\ A \in NonScalarKeys(DefaultsOf(Meta))
  /\ A \in KeysOf(input_vars)
  /\ AllScalar(input_vars)
  /\ result.kind = "ValidationError"
  /\ result.text = A

(***************************************************************************)
(* C7                                                                      *)
(***************************************************************************)
\* the template with only the "_template" key removed
Stripped(d) ==
  LET pairs == [i \in DOMAIN d.keys |-> << d.keys[i], d.vals[i] >>]
      kept == SelectSeq(pairs, LAMBDA q : q[1] # K_template)
  IN  Dict([i \in DOMAIN kept |-> kept[i][1]], [i \in DOMAIN kept |-> kept[i][2]])

\* the payload holds no placeholder
PlaceholderFree(value) ==
  _find_placeholders(value) = <<>> /\ NoPlaceholderText(value)

\* C7 as stated: a template whose payload holds no placeholder renders, with
\* any variable set, to the payload unchanged, and the render does not fail.
C7_AsStated ==
  ( /\ result.op = "render"
    /\ ValidVariableSets
    /\ PlaceholderFree(Stripped(template)) )
  => /\ result.returned
     /\ result.value = Stripped(template)

\* C7, amended: a template whose payload holds no placeholder renders, with
\* any valid variable set, to the payload unchanged (the template without
\* its "_template" key), except that in strict mode it fails with
\* MissingVariables when the explicit required list names a variable that
\* neither the caller nor the defaults supply.
C7_Identity ==
  ( /\ result.op = "render"
    /\ ValidVariableSets
    /\ PlaceholderFree(Stripped(template)) )
  => IF Strict /\ ExpectedMissing # {}
     THEN /\ Get(Meta, K_required).t = "list"
          /\ Reports("MissingVariables", ExpectedMissing)
     ELSE /\ result.returned
          /\ result.value = Stripped(template)

\* a render, with variables, of a template that has metadata and whose leaf
\* holds braces but no placeholder: the payload came back unchanged
C7_Witness ==
  /\ result.op = "render"
  /\ ValidVariableSets
  /\ PlaceholderFree(Stripped(template))
  /\ HasKey(template, K_template)
  /\ KeysOf(input_vars) # {}
  /\ \E s \in StringLeaves(Stripped(template)) : \E i \in DOMAIN s : s[i] = "{"
  /\ result.returned
  /\ result.value = Stripped(template)

(***************************************************************************)
(* C8                                                                      *)
(***************************************************************************)
\* the number of brace characters of a text
Braces(s) == Cardinality({ i \in DOMAIN s : s[i] \in {"{", "}"} })

\* every brace of every string leaf belongs to a placeholder (a placeholder
\* has four)
BracesOnlyInPlaceholders(value) ==
  \A s \in StringLeaves(value) : Braces(s) = 4 * Len(finditer(s, 1))

\* no value of the variable set holds a brace
BraceFree(variables) == \A k \in DOMAIN variables : Braces(variables[k]) = 0

\* C8 as stated: when the variable set covers every placeholder name of the
\* value, the interpolated value holds no placeholder, whatever the values.
C8_AsStated ==
  ( /\ result.op = "interpolate"
    /\ ToSet(_find_placeholders(template)) \subseteq DOMAIN result.variables )
  => _find_placeholders(result.value) = <<>>

\* C8, amended: when the variable set covers every placeholder name of the
\* value, no variable value holds a brace character, and every brace
\* character of the value belongs to a well-formed placeholder, the
\* interpolated value holds no placeholder.
C8_RoundTripClosure ==
  ( /\ result.op = "interpolate"
    /\ ToSet(_find_placeholders(template)) \subseteq DOMAIN result.variables
    /\ BraceFree(result.variables)
    /\ BracesOnlyInPlaceholders(template) )
  => /\ _find_placeholders(result.value) = <<>>
     /\ NoPlaceholderText(result.value)

\* an interpolation that replaced two placeholders and left none
C8_Witness ==
  /\ result.op = "interpolate"
  /\ ToSet(_find_placeholders(template)) \subseteq DOMAIN result.variables
  /\ BraceFree(result.variables)
  /\ BracesOnlyInPlaceholders(template)
  /\ Len(_find_placeholders(template)) >= 2
  /\ \E k \in ToSet(_find_placeholders(template)) : result.variables[k] # <<>>
  /\ result.value # template
  /\ _find_placeholders(result.value) = <<>>

(***************************************************************************)
(* C9                                                                      *)
(***************************************************************************)
\* C9: a rendered value that holds no placeholder, rendered again with the
\* same variables or with more, is returned unchanged.
C9_Idempotent ==
  (result.op = "rerender" /\ _find_placeholders(result.prev) = <<>>)
  => /\ result.returned
     /\ result.value = result.prev

\* a second render of a value in which the first render had replaced {{a}} by
\* the bare name b, now with a value for b as well: b is not substituted
C9_Witness ==
  /\ result.op = "rerender"
  /\ _find_placeholders(result.prev) = <<>>
  /\ A \in PayloadNames
  /\ A \in KeysOf(input_vars)
  /\ Get(input_vars, A) = Str(B)
  /\ result.prev # Payload(template)
  /\ B \notin KeysOf(input_vars)
  /\ B \in DOMAIN result.variables
  /\ result.returned
  /\ result.value = result.prev

(***************************************************************************)
(* C10                                                                     *)
(***************************************************************************)
\* the objects the caller's documents consist of
CallerObjects == Reach(heap, refs.template) \cup Reach(heap, refs.input_vars)

\* C10: no call changes an object the caller passed: the caller's template
\* object (its "_template" entry and nested containers included) and
\* variable document still hold the values they held before, as does a
\* rendered value that was rendered again; and a returned value is built of
\* new objects only, none of them part of the caller's documents or of the
\* value that was rendered.
C10_InputsNotMutated ==
  /\ Deref(heap, refs.template) = template
  /\ Deref(heap, refs.input_vars) = input_vars
  /\ LET before == Loaded(template, input_vars).h
     IN  SubSeq(heap, 1, Len(before)) = before
  /\ result.op = "rerender" => Deref(heap, refs.prev) = result.prev
  /\ (result.op \in {"render", "interpolate", "rerender"} /\ result.returned)
       => /\ refs.rendered.t = "ref"
          /\ Deref(heap, refs.rendered) = result.value
          /\ Reach(heap, refs.rendered) \cap CallerObjects = {}
          /\ Reach(heap, refs.rendered) \cap Reach(heap, refs.prev) = {}

\* a successful render of a template with metadata and nested containers
C10_Witness ==
  /\ result.op = "render"
  /\ result.returned
  /\ HasKey(template, K_template)
  /\ HasKey(template, K_items)
  /\ Cardinality(Reach(heap, refs.rendered)) >= 3
  /\ Deref(heap, refs.template) = template

(***************************************************************************)
(* C11                                                                     *)
(***************************************************************************)
\* C11 as stated: metadata extraction fails for no template.  A template
\* that is an object with the "_template" key renders as its copy without
\* that key, under the key's value if that is an object and under the empty
\* metadata block otherwise; a template that is no object, or lacks the key,
\* renders as itself under the empty metadata block.  (In tolerant mode and
\* with valid variables no later step of the render can fail.)
C11_AsStated ==
  (result.op = "render" /\ allow_unresolved /\ AllScalar(input_vars))
  => LET payload == IF template.t = "dict" THEN Stripped(template) ELSE template
     IN  /\ result.returned
         /\ result.value
              = interpolate_variables(payload, _normalize_vars(input_vars).out)
         /\ (template.t = "dict" /\ Get(template, K_template).t = "dict")
              => result.required_set
                   = RequiredSet(Get(template, K_template), payload)
         /\ ~(template.t = "dict" /\ Get(template, K_template).t = "dict")
              => result.required_set = ToSet(_find_placeholders(payload))

(***************************************************************************)
(* C12                                                                     *)
(***************************************************************************)
\* the regular files below the root whose name ends in ".json"
JsonFiles ==
  { e \in templates_dir.entries :
      ~e.dir /\ Len(e.rel[Len(e.rel)]) >= 5
             /\ SubSeq(e.rel[Len(e.rel)], Len(e.rel[Len(e.rel)]) - 4,
                       Len(e.rel[Len(e.rel)])) = DotJson }

\* the descriptor the claim gives a file: id and the extension make up the
\* relative path (a name that is nothing but ".json" has no extension)
IsDescriptorOf(d, e) ==
  LET relative == Join(e.rel, Slash)
      extension == IF e.rel[Len(e.rel)] = DotJson THEN <<>> ELSE DotJson
  IN  /\ d.id \o extension = relative
      /\ d.path = templates_dir.root \o Slash \o relative
      /\ d.category = IF Len(e.rel) > 1 THEN e.rel[1] ELSE General

\* C12 as stated: list_templates returns exactly one descriptor {id, path,
\* category} per *.json file found recursively under the root, id the
\* relative path without its extension, category the first segment of a
\* relative path of more than one segment and "general" otherwise; a root
\* that does not exist gives the empty list.
C12_AsStated ==
  (result.op = "list")
  => /\ templates_dir.kind = "none" => result.templates = <<>>
     /\ Len(result.templates) = Cardinality(JsonFiles)
     /\ \A e \in JsonFiles :
          \E i \in DOMAIN result.templates : IsDescriptorOf(result.templates[i], e)
     /\ \A i \in DOMAIN result.templates :
          \E e \in JsonFiles : IsDescriptorOf(result.templates[i], e)

(***************************************************************************)
(* C13                                                                     *)
(***************************************************************************)
\* the name of the placeholder text s[i..j]
NameOf(s, i, j) ==
  SelectSeq(SubSeq(s, i + 2, j - 2), LAMBDA c : c \in NameChars)

\* the text s from index i on, read once from left to right: a well-formed
\* placeholder whose name has a value gives the value, one whose name has
\* none gives itself, any other character gives itself
RECURSIVE OnePass(_, _, _)
OnePass(s, i, V) ==
  IF i > Len(s) THEN <<>>
  ELSE LET ends == IF s[i] # "{" THEN {}
                   ELSE { j \in (i + 4)..Len(s) : IsPlaceholderText(s, i, j) }
       IN  IF ends = {} THEN << s[i] >> \o OnePass(s, i + 1, V)
           ELSE LET j == CHOOSE e \in ends : TRUE
                    name == NameOf(s, i, j)
                IN  (IF name \in DOMAIN V THEN V[name] ELSE SubSeq(s, i, j))
                      \o OnePass(s, j + 1, V)

\* a value with every string leaf read once
RECURSIVE Rewritten(_, _)
Rewritten(value, V) ==
  CASE value.t = "str"  -> Str(OnePass(value.s, 1, V))
    [] value.t = "dict" ->
         Dict(value.keys, [i \in DOMAIN value.vals |-> Rewritten(value.vals[i], V)])
    [] value.t = "list" ->
         List([i \in DOMAIN value.items |-> Rewritten(value.items[i], V)])
    [] OTHER -> value

\* C13: interpolate_variables rewrites each string leaf in a single pass:
\* every well-formed placeholder whose name is a key of the variable set is
\* replaced by exactly that variable's text, every other well-formed
\* placeholder is left as it is, character for character, all other
\* characters are unchanged, and the inserted text is not scanned again.
C13_SinglePass ==
  (result.op = "interpolate")
  => result.value = Rewritten(template, result.variables)

\* an interpolation of "{{a}}{{ b }}" with a = "{{ b }}" and b = "y": the
\* inserted {{ b }} stays, the template's own {{ b }} becomes y
C13_Witness ==
  /\ result.op = "interpolate"
  /\ template = Flat(Ph_a \o Ph_b)
  /\ A \in DOMAIN result.variables /\ B \in DOMAIN result.variables
  /\ result.variables[A] = Ph_b
  /\ result.variables[B] = << "y" >>
  /\ result.value = Flat(Ph_b \o << "y" >>)

(***************************************************************************)
(* C14                                                                     *)
(***************************************************************************)
\* C14 as stated: for every payload P and variable set V, the names the
\* scanner finds in interpolate_variables(P, V) are exactly the names it
\* finds in P minus the keys of V.
C14_AsStated ==
  (result.op = "interpolate")
  => ToSet(_find_placeholders(result.value))
       = ToSet(_find_placeholders(template)) \ DOMAIN result.variables

\* C14, amended: when no value of V holds a brace character and every brace
\* character of P belongs to a well-formed placeholder, the names the
\* scanner finds in interpolate_variables(P, V) are exactly the names it
\* finds in P minus the keys of V.
C14_ScanAfterInterpolation ==
  ( /\ result.op = "interpolate"
    /\ BraceFree(result.variables)
    /\ BracesOnlyInPlaceholders(template) )
  => ToSet(_find_placeholders(result.value))
       = ToSet(_find_placeholders(template)) \ DOMAIN result.variables

\* an interpolation that replaced {{a}} by a text and left {{ b }}, which has
\* no value: the scanner finds b alone in the result
C14_Witness ==
  /\ result.op = "interpolate"
  /\ BraceFree(result.variables)
  /\ BracesOnlyInPlaceholders(template)
  /\ ToSet(_find_placeholders(template)) = {A, B}
  /\ A \in DOMAIN result.variables
  /\ result.variables[A] # <<>>
  /\ B \notin DOMAIN result.variables
  /\ ToSet(_find_placeholders(result.value)) = {B}

(***************************************************************************)
(* C15                                                                     *)
(***************************************************************************)
\* y has the shape of x: the same type at every position, lists of the same
\* length, objects with the same keys in the same order, and equal numbers,
\* booleans and nulls; string leaves may differ
RECURSIVE SameShape(_, _)
SameShape(x, y) ==
  /\ x.t = y.t
  /\ CASE x.t = "str"  -> TRUE
        [] x.t = "dict" ->
             /\ y.keys = x.keys
             /\ DOMAIN y.vals = DOMAIN x.vals
             /\ \A i \in DOMAIN x.vals : SameShape(x.vals[i], y.vals[i])
        [] x.t = "list" ->
             /\ DOMAIN y.items = DOMAIN x.items
             /\ \A i \in DOMAIN x.items : SameShape(x.items[i], y.items[i])
        [] OTHER -> y = x

\* C15: interpolation never changes the shape of the document: the value
\* interpolate_variables returns has the same container type at every
\* position, the same list lengths and element order, the same keys in the
\* same order (keys that read as placeholders included), and the same
\* numbers, booleans and nulls; only string leaves may differ.
C15_ShapePreserved ==
  (result.op = "interpolate") => SameShape(template, result.value)

\* an interpolation of {"{{a}}": "{{a}}"} with a value for a: the leaf is
\* replaced, the key is not
C15_Witness ==
  /\ result.op = "interpolate"
  /\ template = Dict(<< Ph_a >>, << Str(Ph_a) >>)
  /\ A \in DOMAIN result.variables
  /\ result.variables[A] = << "x" >>
  /\ result.value = Dict(<< Ph_a >>, << Str(<< "x" >>) >>)

(***************************************************************************)
(* C16                                                                     *)
(***************************************************************************)
\* the substrings of s that are placeholder text, as <<first, last>> indices
Occurrences(s) ==
  UNION { { << i, j >> : j \in { e \in (i + 4)..Len(s) : IsPlaceholderText(s, i, e) } } :
            i \in { h \in 1..(Len(s) - 1) : s[h] = "{" /\ s[h + 1] = "{" } }

\* the names of the placeholder texts in the string leaves of a value
NamesIn(value) ==
  UNION { { NameOf(s, ij[1], ij[2]) : ij \in Occurrences(s) } :
            s \in StringLeaves(value) }

\* C16: only a substring that reads two opening braces, optional whitespace,
\* a name of one or more characters of [A-Za-z0-9_], optional whitespace and
\* two closing braces is a placeholder.  The scanner finds the names of
\* those substrings of the string leaves and nothing else (no empty name,
\* nothing unbalanced, no name with other characters, nothing of a key); a
\* value without such a substring is interpolated to itself, and rendered
\* to itself in strict mode when no required list is declared; and the
\* names a failure reports for want of a required list, or as unresolved,
\* are names of such substrings.
C16_OnlyWellFormed ==
  /\ (result.op = "scan")
       => /\ ToSet(result.found) = NamesIn(template)
          /\ \A s \in StringLeaves(template) :
               Len(finditer(s, 1)) = Cardinality(Occurrences(s))
  /\ (result.op = "interpolate" /\ NoPlaceholderText(template))
       => result.value = template
  /\ (result.op = "render" /\ ValidVariableSets
         /\ Get(Meta, K_required).t # "list")
       => /\ NoPlaceholderText(Stripped(template))
               => result.returned /\ result.value = Stripped(template)
          /\ result.kind = "MissingVariables"
               => ToSet(result.names) \subseteq NamesIn(Stripped(template))
          /\ result.kind = "UnresolvedPlaceholders"
               => ToSet(result.names)
                    \subseteq NamesIn(Rewritten(Stripped(template), result.variables))

\* a strict render of "{{ a}}{{a" with a = "x": the placeholder is replaced,
\* the unbalanced rest passes through and is not reported
C16_Witness ==
  /\ result.op = "render"
  /\ Strict
  /\ template = Flat(<< "{", "{", " ", "a", "}", "}", "{", "{", "a" >>)
  /\ Get(input_vars, A) = Str(<< "x" >>)
  /\ result.returned
  /\ result.value = Flat(<< "x", "{", "{", "a" >>)

(***************************************************************************)
(* C17                                                                     *)
(***************************************************************************)
\* the string entries of a list
StringEntries(list) ==
  { list.items[i].s : i \in { j \in DOMAIN list.items : list.items[j].t = "str" } }

\* C17: when the metadata block declares required as a list, the required
\* set is exactly the string entries of that list (other entries ignored,
\* listed names required whether or not the payload uses them, placeholders
\* of the payload that are not listed not required); otherwise it is exactly
\* the set of placeholder names of the payload, the template without its
\* "_template" key.  In strict mode the names reported missing are those of
\* that set that neither the caller nor the defaults supply.
C17_RequiredSet ==
  (result.op = "render" /\ ValidVariableSets)
  => LET required == Get(Meta, K_required)
         expected == IF required.t = "list" THEN StringEntries(required)
                     ELSE NamesIn(Stripped(template))
     IN  /\ result.required_set = expected
         /\ result.kind = "MissingVariables"
              => ToSet(result.names)
                   = expected \ (KeysOf(input_vars) \cup KeysOf(DefaultsOf(Meta)))

\* a strict render of a payload that uses a, given no a, under the required
\* list ["c"]: c alone is required and reported missing
C17_Witness ==
  /\ result.op = "render"
  /\ ValidVariableSets
  /\ Strict
  /\ Get(Meta, K_required) = List(<< Str(C) >>)
  /\ PayloadNames = {A}
  /\ A \notin KeysOf(input_vars) \cup KeysOf(DefaultsOf(Meta))
  /\ result.required_set = {C}
  /\ result.kind = "MissingVariables"
  /\ result.names = << C >>

(***************************************************************************)
(* C18                                                                     *)
(***************************************************************************)
\* the metadata block declares a required list
ExplicitRequired == Get(Meta, K_required).t = "list"

\* C18 as stated: the missing-variable check comes first, so when no
\* required list is declared and no value of the effective variable set
\* holds a well-formed placeholder, a strict render fails with
\* MissingVariables or not at all; UnresolvedPlaceholders is reached only
\* through a required list that omits a used name or through a value that
\* holds placeholder text.
C18_AsStated ==
  (result.op = "render" /\ ValidVariableSets /\ Strict)
  => /\ ExpectedMissing # {} => result.kind = "MissingVariables"
     /\ ( /\ ~ExplicitRequired
          /\ \A k \in DOMAIN ExpectedVariables :
               ~ContainsPlaceholderText(ExpectedVariables[k]) )
          => (result.raised => result.kind = "MissingVariables")
     /\ result.kind = "UnresolvedPlaceholders"
          => \/ /\ ExplicitRequired
                /\ ~(PayloadNames \subseteq StringEntries(Get(Meta, K_required)))
             \/ \E k \in DOMAIN ExpectedVariables :
                  ContainsPlaceholderText(ExpectedVariables[k])

\* C18, amended: the missing-variable check comes first, so a strict render
\* with a missing required name fails with MissingVariables; when no
\* required list is declared, no value of the effective variable set holds
\* a brace character and every brace character of the payload belongs to a
\* well-formed placeholder, a strict render fails with MissingVariables or
\* not at all; UnresolvedPlaceholders is reached only through a required
\* list that omits a used name, through a value that holds a brace
\* character, or through a payload with a brace outside a placeholder.
C18_MissingBeforeUnresolved ==
  (result.op = "render" /\ ValidVariableSets /\ Strict)
  => /\ ExpectedMissing # {} => result.kind = "MissingVariables"
     /\ ( /\ ~ExplicitRequired
          /\ BraceFree(ExpectedVariables)
          /\ BracesOnlyInPlaceholders(Payload(template)) )
          => (result.raised => result.kind = "MissingVariables")
     /\ result.kind = "UnresolvedPlaceholders"
          => \/ /\ ExplicitRequired
                /\ ~(PayloadNames \subseteq StringEntries(Get(Meta, K_required)))
             \/ ~BraceFree(ExpectedVariables)
             \/ ~BracesOnlyInPlaceholders(Payload(template))

\* a strict render, without a required list, of a payload that uses a and b
\* and has no other brace, given a brace-free a and no b: it fails before
\* interpolation, reporting b missing
C18_Witness ==
  /\ result.op = "render"
  /\ ValidVariableSets
  /\ Strict
  /\ ~ExplicitRequired
  /\ BraceFree(ExpectedVariables)
  /\ BracesOnlyInPlaceholders(Payload(template))
  /\ PayloadNames = {A, B}
  /\ DOMAIN ExpectedVariables = {A}
  /\ result.kind = "MissingVariables"
  /\ result.names = << B >>
  /\ result.value = Null

(***************************************************************************)
(* C19                                                                     *)
(***************************************************************************)
\* the names whose value is null: null from the caller, or null in the
\* defaults and not supplied by the caller
NullNames ==
  { k \in KeysOf(input_vars) : Get(input_vars, k) = Null }
  \cup { k \in KeysOf(DefaultsOf(Meta)) \ KeysOf(input_vars) :
           Get(DefaultsOf(Meta), k) = Null }

\* C19 as stated: a variable supplied as null counts as resolved: its name
\* is a key of the effective variable set with value "", it is never
\* reported in MissingVariables, every placeholder for it is replaced by the
\* empty string, and it is not among the unresolved names after
\* interpolation.
C19_AsStated ==
  (result.op = "render" /\ ValidVariableSets)
  => \A k \in NullNames :
       /\ k \in DOMAIN result.variables
       /\ result.variables[k] = <<>>
       /\ k \notin ToSet(result.names)
       /\ result.returned
            => /\ result.value = Rewritten(Stripped(template), result.variables)
               /\ k \notin ToSet(_find_placeholders(result.value))

\* C19, amended: a variable supplied as null counts as resolved: its name
\* is a key of the effective variable set with value "", it is never
\* reported in MissingVariables, and every placeholder for it is replaced by
\* the empty string; it is not among the unresolved names after
\* interpolation when no value of the effective variable set holds a brace
\* character and every brace character of the payload belongs to a
\* well-formed placeholder.
C19_NullIsResolved ==
  (result.op = "render" /\ ValidVariableSets)
  => \A k \in NullNames :
       /\ k \in DOMAIN result.variables
       /\ result.variables[k] = <<>>
       /\ result.kind = "MissingVariables" => k \notin ToSet(result.names)
       /\ result.returned
            => result.value = Rewritten(Stripped(template), result.variables)
       /\ (BraceFree(ExpectedVariables) /\ BracesOnlyInPlaceholders(Payload(template)))
            => /\ k \notin ToSet(result.names)
               /\ result.returned => k \notin ToSet(_find_placeholders(result.value))

\* a strict render of {"msg": "{{a}}"} with a = null from the caller
C19_Witness ==
  /\ result.op = "render"
  /\ Strict
  /\ Stripped(template) = Flat(Ph_a)
  /\ A \in KeysOf(input_vars)
  /\ Get(input_vars, A) = Null
  /\ result.returned
  /\ result.variables[A] = <<>>
  /\ result.value = Flat(<<>>)

====
